---------------------------- MODULE Spec2Model ----------------------------
(***************************************************************************)
(* A model of src/src/main.rs: the per-tick systems gravitate, graviturn,  *)
(* move_player, aim, shoot and physics_events of the planet-gravity game.  *)
(*                                                                         *)
(* Numbers.  Positions are integer vectors <<x, y>>.  A vector the code    *)
(* obtains by normalising is kept in the exact form  k * v / |n|  (a       *)
(* record [k, v, n] of an integer and two integer vectors), so that        *)
(* direction and magnitude are decided without rounding; n = <<0, 0>> is   *)
(* the 0/0 of normalising the zero vector (NaN components).  Angles are    *)
(* kept as a ray plus a number of angle units of 15 degrees.               *)
(***************************************************************************)
EXTENDS Integers, Sequences, FiniteSets, TLC

\* ------------------------------------------------------------- bounds
MaxBullets == 1
MaxDtSteps == 2

\* ------------------------------------------------- program constants
PLANET_RADIUS == 200
ATMOSPHERE_RADIUS == PLANET_RADIUS * 2
GRAVITY == 200000
JUMP_IMPULSE == 30000
AIR_IMPULSE == 1000
AIR_TANGENT_FACTOR == 2
PLAYER_HALF_WIDTH == 8
PLAYER_HALF_HEIGHT == 23
BULLET_HALF_EXTENT == 5
BULLET_OFFSET == 30
BULLET_SPEED == 700
\* 1.2 rad/s as a fraction
WALK_RATE_NUM == 12
WALK_RATE_DEN == 10
\* angle units in a quarter turn (one unit is 15 degrees); time is counted
\* in the time 1 rad/s needs for one angle unit
QUARTER == 6

\* ------------------------------------------------------------ entities
NoEntity == <<"none", 0>>
PlayerE == <<"player", 0>>
PlanetIds == {1, 2}
Planets == {<<"planet", i>> : i \in PlanetIds}
Atmospheres == {<<"atmosphere", i>> : i \in PlanetIds}
BulletIds == 1..MaxBullets
BulletEntities == {<<"bullet", i>> : i \in BulletIds}
Dynamic == {PlayerE} \cup BulletEntities
Colliders == Planets \cup Atmospheres \cup Dynamic

\* spawn_planets: the translation both the atmosphere and the planet get
PlanetTranslation(i) == IF i = 1 THEN <<0, 0>> ELSE <<750, 500>>

\* -------------------------------------------------------------- vectors
Zero2 == <<0, 0>>
VAdd(a, b) == <<a[1] + b[1], a[2] + b[2]>>
VSub(a, b) == <<a[1] - b[1], a[2] - b[2]>>
VNeg(a) == <<-a[1], -a[2]>>
VScale(a, k) == <<a[1] * k, a[2] * k>>
Dot(a, b) == a[1] * b[1] + a[2] * b[2]
Cross(a, b) == a[1] * b[2] - a[2] * b[1]
MagnitudeSquared(a) == Dot(a, a)
Abs(i) == IF i < 0 THEN -i ELSE i
Sq(i) == i * i
\* a quarter turn counter-clockwise, k times
RECURSIVE RotQuarters(_, _)
RotQuarters(v, k) ==
    IF k % 4 = 0 THEN v ELSE RotQuarters(<<-v[2], v[1]>>, (k % 4) - 1)

RECURSIVE Gcd(_, _)
Gcd(a, b) == IF b = 0 THEN a ELSE Gcd(b, a % b)
\* the direction of v as a ray: v divided by the gcd of its components
Prim(v) ==
    LET g == Gcd(Abs(v[1]), Abs(v[2]))
    IN IF g = 0 THEN v ELSE <<v[1] \div g, v[2] \div g>>

\* the integer square root, by bisection
RECURSIVE SqrtBetween(_, _, _)
SqrtBetween(m, lo, hi) ==
    IF hi - lo <= 1 THEN lo
    ELSE LET mid == (lo + hi) \div 2
         IN IF mid * mid <= m THEN SqrtBetween(m, mid, hi)
            ELSE SqrtBetween(m, lo, mid)
ISqrt(m) == SqrtBetween(m, 0, 32768)
Norm(v) == ISqrt(MagnitudeSquared(v))
HasIntegerNorm(v) == Sq(Norm(v)) = MagnitudeSquared(v)

\* ----------------------------------------- exact scaled directions k*v/|n|
\* Vector2::normalize: v / |v|, which is 0/0 = NaN for the zero vector
Normalize(v) == [k |-> 1, v |-> v, n |-> v]
\* multiplication by a scalar
Scaled(s, c) == [s EXCEPT !.k = s.k * c]
IsNaN(s) == s.n = Zero2
NaNVector == [k |-> 1, v |-> Zero2, n |-> Zero2]
\* the components, when |n| is an integer that divides them
Eval(s) ==
    LET d == Norm(s.n)
    IN <<(s.k * s.v[1]) \div d, (s.k * s.v[2]) \div d>>
IsExact(s) ==
    /\ ~IsNaN(s)
    /\ HasIntegerNorm(s.n)
    /\ (s.k * s.v[1]) % Norm(s.n) = 0
    /\ (s.k * s.v[2]) % Norm(s.n) = 0

\* ----------------------------------------------------------------- angles
\* an angle is the direction of a ray plus a number of 15-degree units;
\* whole quarter turns are folded into the ray
Fold(ray, units) ==
    LET u == units % (4 * QUARTER)
    IN [ray |-> Prim(RotQuarters(ray, u \div QUARTER)), units |-> u % QUARTER]
\* f32::atan2(y, x); atan2(0, 0) is 0
Atan2(y, x) == IF <<x, y>> = Zero2 THEN Fold(<<1, 0>>, 0) ELSE Fold(<<x, y>>, 0)
AngleAdd(a, units) == Fold(a.ray, a.units + units)
PI == 2 * QUARTER
\* Matrix::angle: the unsigned angle between two vectors, 0 if one is zero
AngleBetween(a, b) ==
    IF a = Zero2 \/ b = Zero2 THEN Fold(<<1, 0>>, 0)
    ELSE Fold(<<Dot(a, b), Abs(Cross(a, b))>>, 0)
\* an angle times +1 or -1
AngleTimes(a, sign) ==
    IF sign = 1 THEN a ELSE Fold(<<a.ray[1], -a.ray[2]>>, -a.units)
\* (cos a, sin a) of an angle that is a whole number of quarter turns from
\* its ray: the unit vector along the ray
CosSin(a) == Normalize(a.ray)
\* UnitComplex::new(angle) and UnitComplex::angle: the rotation is kept as
\* the angle it was built from
UnitComplexNew(a) == Fold(a.ray, a.units)
RotationAngle(r) == AngleAdd(Atan2(r.ray[2], r.ray[1]), r.units)
IdentityRotation == Fold(<<1, 0>>, 0)


\* ------------------------------------------------------------------ state
VARIABLES
    pc,                 \* the system that runs next in the tick
    spawned,            \* number of Bullet entities spawned so far
    alive,              \* the Bullet entities that exist in the world
    attract,            \* Attractable.0 of the player and of each bullet
    is_grounded,        \* Player.is_grounded
    pos,                \* translation of each dynamic body
    rot,                \* rotation of the player's body (a ray, see UnitComplexNew)
    cursor,             \* Cursor.world_position
    launch,             \* per bullet: the builder arguments shoot gave it
    forces,             \* per body: the forces applied since the last physics step
    impulses,           \* the impulses applied to the player since the last physics step
    moved,              \* what move_player read and did in this tick
    proximity_events,   \* EventQueue.proximity_events
    contact_events,     \* EventQueue.contact_events
    inside,             \* physics engine: the (atmosphere, body) pairs that intersect
    touching,           \* physics engine: the pairs of colliders in contact
    issued,             \* per entity: despawn commands issued for it
    removed,            \* per bullet: times a despawn command removed it
    contacted,          \* bullets named by a contact event that physics_events processed
    proxlog,            \* per body: how far the processed proximity events have
                        \* gone through enter(A), enter(B), exit(A)
    handled             \* the kinds of proximity event processed so far

vars == <<pc, spawned, alive, attract, is_grounded, pos, rot, cursor, launch,
          forces, impulses, moved, proximity_events, contact_events, inside,
          touching, issued, removed, contacted, proxlog,
          handled>>

\* ------------------------------------------------- entity/component queries
IsAtmosphere(e) == e \in Atmospheres
IsPlanet(e) == e \in Planets
\* Query<&Bullet>::get: the entity exists and carries Bullet
IsBullet(e, live) == e \in BulletEntities /\ e \in live
\* Query<&mut Player>::get_component_mut
IsPlayer(e) == e = PlayerE
\* Query<&mut Attractable>::get_component_mut: the player, or a bullet that exists
HasAttractable(e, live) == e = PlayerE \/ (e \in BulletEntities /\ e \in live)
\* BodyHandleToEntity: the handles of every body created so far
Resolves(h, n) == h \in Planets \cup Atmospheres \cup {PlayerE}
                    \/ (h \in BulletEntities /\ h[2] <= n)
HandlesToEntities(hs, n) == SelectSeq(hs, LAMBDA h : Resolves(h, n))

\* ------------------------------------------------------ get_planet_center
\* Some(translation of the atmosphere's body) as <<c>>, None as <<>>;
\* get_planet_centerMut is the variant that falls back to the origin
get_planet_centerMut(attractable) ==
    IF attractable \in Atmospheres
    THEN <<PlanetTranslation(attractable[2])>>
    ELSE <<Zero2>>
get_planet_center(attractable) ==
    IF attractable \in Atmospheres
    THEN <<PlanetTranslation(attractable[2])>>
    ELSE <<>>

\* the entities a query over (Attractable, RigidBodyHandleComponent) yields
AttractableBodies == {PlayerE} \cup alive

\* --------------------------------------------------------------- gravitate
\* the range test; InPullRangeMut is the variant that also skips a body at
\* exactly ATMOSPHERE_RADIUS
InPullRangeMut(diff) == MagnitudeSquared(diff) < Sq(ATMOSPHERE_RADIUS)
InPullRange(diff) == ~(MagnitudeSquared(diff) > Sq(ATMOSPHERE_RADIUS))

Gravity(diff) == Scaled(Normalize(diff), GRAVITY)

\* the forces one pass of the loop applies to body b
GravitateBody(b) ==
    LET planet_center == get_planet_center(attract[b])
    IN IF planet_center = <<>> THEN <<>>
       ELSE LET diff == VSub(planet_center[1], pos[b])
            IN IF InPullRange(diff) THEN <<Gravity(diff)>> ELSE <<>>

gravitate ==
    /\ forces' = [b \in Dynamic |->
                    IF b \in AttractableBodies
                    THEN forces[b] \o GravitateBody(b) ELSE forces[b]]
    /\ UNCHANGED <<spawned, alive, attract, is_grounded, pos, rot, cursor, launch,
                   impulses, moved, proximity_events, contact_events, inside,
                   touching, issued, removed, contacted, proxlog,
                   handled>>

\* --------------------------------------------------------------- graviturn
\* the isometry graviturn stores: <<translation, rotation>>; TurnedMut is
\* the variant that stores the planet center as the translation
TurnedMut(translation, planet_center) ==
    LET body_planet_distance == VSub(planet_center, translation)
        center == <<0, 1>>
        sign == IF center[1] < translation[1] THEN 1 ELSE -1
        target_angle == AngleTimes(AngleBetween(body_planet_distance, center), sign)
    IN <<planet_center, UnitComplexNew(target_angle)>>
Turned(translation, planet_center) ==
    LET body_planet_distance == VSub(planet_center, translation)
        center == <<0, 1>>
        sign == IF center[1] < translation[1] THEN 1 ELSE -1
        target_angle == AngleTimes(AngleBetween(body_planet_distance, center), sign)
    IN <<translation, UnitComplexNew(target_angle)>>

graviturn ==
    LET planet_center == get_planet_center(attract[PlayerE])
    IN /\ IF planet_center = <<>>
          THEN UNCHANGED <<pos, rot>>
          ELSE LET iso == Turned(pos[PlayerE], planet_center[1])
               IN /\ pos' = [pos EXCEPT ![PlayerE] = iso[1]]
                  /\ rot' = iso[2]
       /\ UNCHANGED <<spawned, alive, attract, is_grounded, cursor, launch, forces,
                      impulses, moved, proximity_events, contact_events, inside,
                      touching, issued, removed, contacted, proxlog,
                      handled>>

\* ------------------------------------------------------------- move_player
Keys == {"A", "D", "W", "S"}
KeyVector(key) ==
    CASE key = "A" -> <<-1, 0>>
      [] key = "D" -> <<1, 0>>
      [] key = "W" -> <<0, 1>>
      [] key = "S" -> <<0, -1>>
\* the fold over the four keys: the sum of the vectors of the pressed ones
Direction(pressed) ==
    <<(IF "D" \in pressed THEN 1 ELSE 0) - (IF "A" \in pressed THEN 1 ELSE 0),
      (IF "W" \in pressed THEN 1 ELSE 0) - (IF "S" \in pressed THEN 1 ELSE 0)>>
HasDirection(direction) == MagnitudeSquared(direction) > 0
\* Vector2::new(diff.y, -diff.x), before it is normalised
Tangent(diff) == <<diff[2], -diff[1]>>
Clockwise(diff) == Normalize(Tangent(diff))
\* direction_factor.  angle() is 0 when direction is zero, so is_clockwise
\* holds; when diff is zero clockwise is NaN and the comparison of the
\* angle depends on how the clamp in angle() treats NaN: either factor
DirectionFactors(direction, diff) ==
    IF direction = Zero2 THEN {1}
    ELSE IF diff = Zero2 THEN {1, -1}
    ELSE IF Dot(direction, Tangent(diff)) > 0 THEN {1} ELSE {-1}

\* (diff + clockwise * direction_factor or zero).normalize() * -30000.0;
\* JumpImpulseMut is the variant that adds the tangent whether or not a
\* direction is held
JumpImpulseMut(diff, has_direction, direction_factor) ==
    IF diff = Zero2 THEN Scaled(NaNVector, -JUMP_IMPULSE)
    ELSE Scaled(Normalize(Prim(VAdd(VScale(diff, Norm(diff)),
                                    VScale(Tangent(diff), direction_factor)))),
                -JUMP_IMPULSE)
JumpImpulse(diff, has_direction, direction_factor) ==
    IF diff = Zero2 THEN Scaled(NaNVector, -JUMP_IMPULSE)
    ELSE IF ~has_direction THEN Scaled(Normalize(diff), -JUMP_IMPULSE)
    ELSE Scaled(Normalize(Prim(VAdd(VScale(diff, Norm(diff)),
                                    VScale(Tangent(diff), direction_factor)))),
                -JUMP_IMPULSE)

\* (clockwise * direction_factor * 2.0 + diff.normalize()) * 1000.0
AirImpulse(diff, direction_factor) ==
    [k |-> AIR_IMPULSE,
     v |-> VAdd(VScale(Tangent(diff), direction_factor * AIR_TANGENT_FACTOR), diff),
     n |-> diff]

\* time.delta_seconds * 1.2 * direction_factor, in angle units
WalkAngle(dt, direction_factor) ==
    ((dt * WALK_RATE_NUM) \div WALK_RATE_DEN) * direction_factor
\* the isometry the walking branch sets: <<translation, rotation>>
WalkTarget(planet_center, diff, dt, direction_factor, rotation) ==
    LET planet_angle == Atan2(diff[2], diff[1])
        new_planet_angle ==
            AngleAdd(AngleAdd(planet_angle, PI), WalkAngle(dt, direction_factor))
        body_angle == RotationAngle(rotation)
    IN <<Eval(Scaled(CosSin(new_planet_angle), PLANET_RADIUS + PLAYER_HALF_HEIGHT)),
         UnitComplexNew(body_angle)>>

Dts == {5 * i : i \in 1..MaxDtSteps}
\* the sets of held movement keys that are tried: none, each key, two
\* opposite keys (their vectors sum to zero) and a diagonal
PressedSets == {{}, {"A"}, {"D"}, {"W"}, {"S"}, {"A", "D"}, {"D", "W"}}
NotMoved == [kind |-> "none", pressed |-> {}, space |-> FALSE, dt |-> 0,
             from |-> Zero2, rotation |-> IdentityRotation, center |-> <<>>,
             factor |-> 1, grounded |-> FALSE]

\* one run of the system for the one Player, with this tick's input;
\* MovePlayerWithMut is the variant whose jump branch does not end the
\* iteration, so that a held direction also walks the player
MovePlayerWithMut(pressed, space, dt, direction_factor) ==
    LET planet_center == get_planet_center(attract[PlayerE])
        body == pos[PlayerE]
        seen(kind) == [kind |-> kind, pressed |-> pressed, space |-> space,
                       dt |-> IF kind = "walk" THEN dt ELSE 0,
                       from |-> body, rotation |-> rot, center |-> planet_center,
                       factor |-> direction_factor, grounded |-> is_grounded]
    IN IF planet_center = <<>>
       THEN /\ moved' = [NotMoved EXCEPT !.kind = "skip", !.from = body, !.rotation = rot,
                                          !.grounded = is_grounded]
            /\ UNCHANGED <<pos, rot, impulses>>
       ELSE LET diff == VSub(planet_center[1], body)
                direction == Direction(pressed)
                has_direction == HasDirection(direction)
            IN CASE is_grounded /\ space ->
                      /\ impulses' = Append(impulses,
                              JumpImpulse(diff, has_direction, direction_factor))
                      /\ moved' = seen("jump")
                      /\ IF has_direction
                         THEN LET iso == WalkTarget(planet_center[1], diff, dt,
                                                    direction_factor, rot)
                              IN /\ pos' = [pos EXCEPT ![PlayerE] = iso[1]]
                                 /\ rot' = iso[2]
                         ELSE UNCHANGED <<pos, rot>>
                 [] ~(is_grounded /\ space) /\ ~has_direction ->
                      /\ moved' = seen("idle")
                      /\ UNCHANGED <<pos, rot, impulses>>
                 [] ~(is_grounded /\ space) /\ has_direction /\ ~is_grounded ->
                      /\ impulses' = Append(impulses, AirImpulse(diff, direction_factor))
                      /\ moved' = seen("air")
                      /\ UNCHANGED <<pos, rot>>
                 [] OTHER ->
                      LET iso == WalkTarget(planet_center[1], diff, dt,
                                            direction_factor, rot)
                      IN /\ pos' = [pos EXCEPT ![PlayerE] = iso[1]]
                         /\ rot' = iso[2]
                         /\ moved' = seen("walk")
                         /\ UNCHANGED impulses
MovePlayerWith(pressed, space, dt, direction_factor) ==
    LET planet_center == get_planet_center(attract[PlayerE])
        body == pos[PlayerE]
        seen(kind) == [kind |-> kind, pressed |-> pressed, space |-> space,
                       dt |-> IF kind = "walk" THEN dt ELSE 0,
                       from |-> body, rotation |-> rot, center |-> planet_center,
                       factor |-> direction_factor, grounded |-> is_grounded]
    IN IF planet_center = <<>>
       THEN /\ moved' = [NotMoved EXCEPT !.kind = "skip", !.from = body, !.rotation = rot,
                                          !.grounded = is_grounded]
            /\ UNCHANGED <<pos, rot, impulses>>
       ELSE LET diff == VSub(planet_center[1], body)
                direction == Direction(pressed)
                has_direction == HasDirection(direction)
            IN CASE is_grounded /\ space ->
                      /\ impulses' = Append(impulses,
                              JumpImpulse(diff, has_direction, direction_factor))
                      /\ moved' = seen("jump")
                      /\ UNCHANGED <<pos, rot>>
                 [] ~(is_grounded /\ space) /\ ~has_direction ->
                      /\ moved' = seen("idle")
                      /\ UNCHANGED <<pos, rot, impulses>>
                 [] ~(is_grounded /\ space) /\ has_direction /\ ~is_grounded ->
                      /\ impulses' = Append(impulses, AirImpulse(diff, direction_factor))
                      /\ moved' = seen("air")
                      /\ UNCHANGED <<pos, rot>>
                 [] OTHER ->
                      LET iso == WalkTarget(planet_center[1], diff, dt,
                                            direction_factor, rot)
                      IN /\ pos' = [pos EXCEPT ![PlayerE] = iso[1]]
                         /\ rot' = iso[2]
                         /\ moved' = seen("walk")
                         /\ UNCHANGED impulses

\* the system; move_playerMut is the variant in which a jump clears the
\* grounded flag
move_playerMut ==
    /\ \E pressed \in PressedSets, space \in BOOLEAN, dt \in Dts :
          \E direction_factor \in
                DirectionFactors(Direction(pressed),
                    IF get_planet_center(attract[PlayerE]) = <<>> THEN <<1, 0>>
                    ELSE VSub(get_planet_center(attract[PlayerE])[1], pos[PlayerE])) :
             MovePlayerWith(pressed, space, dt, direction_factor)
    /\ is_grounded' = (is_grounded /\ moved'.kind # "jump")
    /\ UNCHANGED <<spawned, alive, attract, cursor, launch, forces,
                   proximity_events, contact_events, inside, touching, issued,
                   removed, contacted, proxlog,
                   handled>>
move_player ==
    /\ \E pressed \in PressedSets, space \in BOOLEAN, dt \in Dts :
          \E direction_factor \in
                DirectionFactors(Direction(pressed),
                    IF get_planet_center(attract[PlayerE]) = <<>> THEN <<1, 0>>
                    ELSE VSub(get_planet_center(attract[PlayerE])[1], pos[PlayerE])) :
             MovePlayerWith(pressed, space, dt, direction_factor)
    /\ UNCHANGED <<spawned, alive, attract, is_grounded, cursor, launch, forces,
                   proximity_events, contact_events, inside, touching, issued,
                   removed, contacted, proxlog,
                   handled>>

\* --------------------------------------------------------------------- aim
\* half of (window.width, window.height), and the camera's transform
WINDOW_WIDTH == 1920
WINDOW_HEIGHT == 1080
WindowCenter == <<WINDOW_WIDTH \div 2, WINDOW_HEIGHT \div 2>>
CameraTranslation == Zero2
CAMERA_SCALE == 1
\* the pointer positions of the latest CursorMoved event that are tried
CursorMoves == {<<960, 1000>>, <<1260, 1190>>}
AimAt(cursor_position) ==
    VAdd(CameraTranslation, VScale(VSub(cursor_position, WindowCenter), CAMERA_SCALE))

\* with a CursorMoved event since the last run; without one nothing changes
aim ==
    /\ \E cursor_position \in CursorMoves : cursor' = AimAt(cursor_position)
    /\ UNCHANGED <<spawned, alive, attract, is_grounded, pos, rot, launch, forces,
                   impulses, moved, proximity_events, contact_events, inside,
                   touching, issued, removed, contacted, proxlog,
                   handled>>

\* ------------------------------------------------------------------- shoot
ShotDirection(target, body_vector) == Normalize(VSub(target, body_vector))
\* the builder arguments of the bullet's body; BulletLaunchMut is the
\* variant with the two factors exchanged
BulletLaunchMut(target, body_vector) ==
    LET direction == Normalize(VSub(target, body_vector))
    IN [from |-> body_vector,
        offset |-> Scaled(direction, BULLET_SPEED),
        vel |-> Scaled(direction, BULLET_OFFSET)]
BulletLaunch(target, body_vector) ==
    LET direction == ShotDirection(target, body_vector)
    IN [from |-> body_vector,
        offset |-> Scaled(direction, BULLET_OFFSET),
        vel |-> Scaled(direction, BULLET_SPEED)]
StartAt(l) == VAdd(l.from, Eval(l.offset))

\* just_pressed(MouseButton::Left): one Bullet is spawned
shoot ==
    /\ spawned < MaxBullets
    /\ LET entity == <<"bullet", spawned + 1>>
           l == BulletLaunch(cursor, pos[PlayerE])
       IN /\ spawned' = spawned + 1
          /\ alive' = alive \cup {entity}
          /\ attract' = [attract EXCEPT ![entity] = NoEntity]
          /\ launch' = [launch EXCEPT ![entity] = <<l>>]
          /\ pos' = [pos EXCEPT ![entity] = IF IsNaN(l.offset) THEN l.from ELSE StartAt(l)]
    /\ UNCHANGED <<is_grounded, rot, cursor, forces, impulses, moved,
                   proximity_events, contact_events, inside, touching, issued,
                   removed, contacted, proxlog,
                   handled>>

\* ------------------------------------------------ physics_events: proximity
\* the match on new_status for one Attractable; OnProximityMut is the
\* variant whose Disjoint arm clears the reference without comparing it
OnProximityMut(current, status, atmosphere_entity) ==
    CASE status = "Intersecting" -> atmosphere_entity
      [] status = "WithinMargin" -> current
      [] status = "Disjoint" -> NoEntity
OnProximity(current, status, atmosphere_entity) ==
    CASE status = "Intersecting" -> atmosphere_entity
      [] status = "WithinMargin" -> current
      [] status = "Disjoint" ->
            IF current = atmosphere_entity THEN NoEntity ELSE current

RECURSIVE ForEntities(_, _, _, _, _)
ForEntities(attr, es, status, atmosphere_entity, live) ==
    IF es = <<>> THEN attr
    ELSE LET e == Head(es)
             next == IF HasAttractable(e, live)
                     THEN [attr EXCEPT ![e] =
                              OnProximity(attr[e], status, atmosphere_entity)]
                     ELSE attr
         IN ForEntities(next, Tail(es), status, atmosphere_entity, live)

\* the body of the first while loop for one popped event;
\* ProximityEventMut is the variant that takes the first participant for
\* the atmosphere instead of looking for one
ProximityEventMut(attr, ev, live, n) ==
    LET entities == HandlesToEntities(<<ev.collider1, ev.collider2>>, n)
    IN IF entities = <<>> THEN attr
       ELSE ForEntities(attr, entities, ev.new_status, Head(entities), live)
ProximityEvent(attr, ev, live, n) ==
    LET entities == HandlesToEntities(<<ev.collider1, ev.collider2>>, n)
        found == SelectSeq(entities, IsAtmosphere)
    IN IF found = <<>> THEN attr
       ELSE ForEntities(attr, entities, ev.new_status, Head(found), live)

RECURSIVE DrainProximity(_, _, _, _)
DrainProximity(q, attr, live, n) ==
    IF q = <<>> THEN attr
    ELSE DrainProximity(Tail(q), ProximityEvent(attr, Head(q), live, n), live, n)

\* -------------------------------------------------- physics_events: contact
\* the bullets of one event for which a despawn command is queued;
\* DespawnsOfMut is the variant that does not ask whether the entity still
\* carries Bullet
DespawnsOfMut(entities, live) == SelectSeq(entities, LAMBDA e : e \in BulletEntities)
\* DespawnsOfAllMut is the variant that despawns every participant of an
\* event that has a bullet
DespawnsOfAllMut(entities, live) ==
    IF \E i \in DOMAIN entities : IsBullet(entities[i], live) THEN entities ELSE <<>>
DespawnsOf(entities, live) == SelectSeq(entities, LAMBDA e : IsBullet(e, live))

\* the flag after one event; GroundedAfterMut is the variant without the
\* test for a Planet among the participants
GroundedAfterMut(grounded, entities, is_started) ==
    IF \E i \in DOMAIN entities : IsPlayer(entities[i])
    THEN is_started ELSE grounded
GroundedAfter(grounded, entities, is_started) ==
    IF (\E i \in DOMAIN entities : IsPlanet(entities[i]))
       /\ (\E i \in DOMAIN entities : IsPlayer(entities[i]))
    THEN is_started ELSE grounded

\* the body of the second while loop for one popped event; st is
\* [grounded, commands]: the flag and the despawn commands queued so far
ContactEvent(st, ev, live, n) ==
    LET is_started == ev.kind = "Started"
        entities == HandlesToEntities(<<ev.handle1, ev.handle2>>, n)
    IN [grounded |-> GroundedAfter(st.grounded, entities, is_started),
        commands |-> st.commands \o DespawnsOf(entities, live)]

\* the second while loop; DrainContactMut is the variant that pops one
\* event only
DrainContactMut(q, st, live, n) ==
    IF q = <<>> THEN st ELSE ContactEvent(st, Head(q), live, n)
RECURSIVE DrainContact(_, _, _, _)
DrainContact(q, st, live, n) ==
    IF q = <<>> THEN st
    ELSE DrainContact(Tail(q), ContactEvent(st, Head(q), live, n), live, n)

Count(seq, e) == Cardinality({i \in DOMAIN seq : seq[i] = e})
Range(seq) == {seq[i] : i \in DOMAIN seq}
BulletsNamed(q) ==
    {b \in BulletEntities :
        \E i \in DOMAIN q : q[i].handle1 = b \/ q[i].handle2 = b}

\* the record of what was processed: for body b, the <<atmosphere, status>>
\* of the proximity events between b and an atmosphere, oldest first
EventsAbout(b, q) ==
    LET mine == SelectSeq(q, LAMBDA ev :
                    \/ ev.collider1 = b /\ ev.collider2 \in Atmospheres
                    \/ ev.collider2 = b /\ ev.collider1 \in Atmospheres)
    IN [i \in DOMAIN mine |->
          <<IF mine[i].collider1 = b THEN mine[i].collider2 ELSE mine[i].collider1,
            mine[i].new_status>>]
\* <<>>: nothing of the sequence yet; <<A>>: enter(A) was the last event;
\* <<A, B>>: enter(A) then enter(B), B # A; <<A, B, A>>: then exit(A)
Progress(log, ev) ==
    LET x == ev[1]
    IN CASE ev[2] = "Intersecting" ->
               IF Len(log) \in {1, 2} /\ log[Len(log)] # x
               THEN <<log[Len(log)], x>> ELSE <<x>>
         [] ev[2] = "Disjoint" ->
               IF Len(log) = 2 /\ log[1] = x THEN <<log[1], log[2], x>> ELSE <<>>
         [] OTHER -> <<>>
RECURSIVE Progressed(_, _)
Progressed(log, evs) ==
    IF evs = <<>> THEN log ELSE Progressed(Progress(log, Head(evs)), Tail(evs))

\* the kind of a processed proximity event: its new status, or
\* "NoAtmosphere" when none of its participants is an atmosphere
KindOf(ev, n) ==
    IF SelectSeq(HandlesToEntities(<<ev.collider1, ev.collider2>>, n), IsAtmosphere) = <<>>
    THEN "NoAtmosphere" ELSE ev.new_status

\* Commands are applied when the stage ends: a despawn removes the entity
\* if it exists and is ignored otherwise
AppliedDespawns(commands, live) == live \ Range(commands)

\* the whole system: both queues are popped until empty, then the stage
\* ends and the queued commands are applied
physics_events ==
    LET attr == DrainProximity(proximity_events, attract, alive, spawned)
        st == DrainContact(contact_events,
                           [grounded |-> is_grounded, commands |-> <<>>],
                           alive, spawned)
        left == AppliedDespawns(st.commands, alive)
        gone(b) == b \in alive /\ b \notin left
    IN /\ attract' = [b \in Dynamic |-> IF gone(b) THEN NoEntity ELSE attr[b]]
       /\ is_grounded' = st.grounded
       /\ alive' = left
       /\ pos' = [b \in Dynamic |-> IF gone(b) THEN Zero2 ELSE pos[b]]
       /\ issued' = [e \in Colliders |-> issued[e] + Count(st.commands, e)]
       /\ removed' = [b \in BulletEntities |->
                        removed[b] + IF b \in alive /\ b \notin alive' THEN 1 ELSE 0]
       /\ contacted' = contacted \cup BulletsNamed(contact_events)
       /\ proxlog' = [b \in Dynamic |->
                        IF b \in {PlayerE} \cup left
                        THEN Progressed(proxlog[b], EventsAbout(b, proximity_events))
                        ELSE <<>>]
       /\ handled' = handled \cup {KindOf(proximity_events[i], spawned) :
                                        i \in DOMAIN proximity_events}
       /\ proximity_events' = <<>>
       /\ contact_events' = <<>>
       /\ UNCHANGED <<spawned, rot, cursor, launch, forces, impulses, moved,
                      inside, touching>>

\* ----------------------------------------------- the physics engine's step
\* The rigid-body integration and the collision detection are the physics
\* engine's.  A step may leave each dynamic body at any of the positions
\* below; the events it queues are the changes of the sensor intersections
\* and of the contacts that these positions make, in any order.  The pairs
\* of a despawned bullet end with a Disjoint or Stopped event.
PlayerPositions ==
    {<<0, 250>>, <<0, 223>>, <<0, 400>>, <<0, 410>>, <<180, 240>>, <<0, 600>>,
     <<750, 723>>, <<750, 500>>}
BulletPositions == {<<0, 205>>, <<240, 320>>, <<0, 600>>}

Reach(b) == IF b = PlayerE THEN PLAYER_HALF_HEIGHT ELSE BULLET_HALF_EXTENT
Within(p, c, r) == MagnitudeSquared(VSub(p, c)) <= Sq(r)
BoxesMeet(p, q, w, h) == Abs(p[1] - q[1]) <= w /\ Abs(p[2] - q[2]) <= h

\* ColliderBuilder::ball(ATMOSPHERE_RADIUS).sensor(true) against a body
SensorPairs(p, live) ==
    {<<a, b>> \in Atmospheres \X ({PlayerE} \cup live) :
        Within(p[b], PlanetTranslation(a[2]), ATMOSPHERE_RADIUS + Reach(b))}
\* ColliderBuilder::ball(PLANET_RADIUS) and the cuboids against each other
ContactPairs(p, live) ==
    {<<a, b>> \in Planets \X ({PlayerE} \cup live) :
        Within(p[b], PlanetTranslation(a[2]), PLANET_RADIUS + Reach(b))}
    \cup {<<PlayerE, b>> : b \in {x \in live :
              BoxesMeet(p[PlayerE], p[x], PLAYER_HALF_WIDTH + BULLET_HALF_EXTENT,
                        PLAYER_HALF_HEIGHT + BULLET_HALF_EXTENT)}}
    \cup {<<a, b>> \in live \X live :
              a[2] < b[2] /\ BoxesMeet(p[a], p[b], 2 * BULLET_HALF_EXTENT,
                                       2 * BULLET_HALF_EXTENT)}

\* every order in which the events of a set can be pushed
RECURSIVE Orders(_)
Orders(S) ==
    IF S = {} THEN {<<>>}
    ELSE UNION {{<<x>> \o q : q \in Orders(S \ {x})} : x \in S}
ProximityChanges(old, new) ==
    {[collider1 |-> pr[1], collider2 |-> pr[2], new_status |-> "Intersecting"] :
        pr \in new \ old}
    \cup {[collider1 |-> pr[1], collider2 |-> pr[2], new_status |-> "Disjoint"] :
        pr \in old \ new}
ContactChanges(old, new) ==
    {[kind |-> "Started", handle1 |-> pr[1], handle2 |-> pr[2]] : pr \in new \ old}
    \cup {[kind |-> "Stopped", handle1 |-> pr[1], handle2 |-> pr[2]] : pr \in old \ new}
NoForces == [b \in Dynamic |-> <<>>]

PhysicsStep ==
    /\ \E p \in PlayerPositions \cup {pos[PlayerE]} :
       \E bp \in [alive -> BulletPositions] :
          LET newpos == [b \in Dynamic |->
                           IF b = PlayerE THEN p
                           ELSE IF b \in alive THEN bp[b] ELSE pos[b]]
          IN /\ pos' = newpos
             /\ inside' = SensorPairs(newpos, alive)
             /\ touching' = ContactPairs(newpos, alive)
             /\ \E q \in Orders(ProximityChanges(inside, inside')) :
                   proximity_events' = proximity_events \o q
             /\ \E q \in Orders(ContactChanges(touching, touching')) :
                   contact_events' = contact_events \o q
    /\ forces' = NoForces
    /\ impulses' = <<>>
    /\ moved' = NotMoved
    /\ launch' = [b \in BulletEntities |-> <<>>]
    /\ UNCHANGED <<spawned, alive, attract, is_grounded, rot, cursor,
                   issued, removed, contacted, proxlog,
                   handled>>

\* ------------------------------------------------------- the tick pipeline
Init ==
    /\ pc = "gravitate"
    /\ spawned = 0
    /\ alive = {}
    /\ attract = [b \in Dynamic |-> NoEntity]
    /\ is_grounded = FALSE
    /\ pos = [b \in Dynamic |-> IF b = PlayerE THEN <<0, 250>> ELSE Zero2]
    /\ rot = IdentityRotation
    /\ cursor = Zero2
    /\ launch = [b \in BulletEntities |-> <<>>]
    /\ forces = NoForces
    /\ impulses = <<>>
    /\ moved = NotMoved
    /\ proximity_events = <<>>
    /\ contact_events = <<>>
    /\ inside = {}
    /\ touching = {}
    /\ issued = [e \in Colliders |-> 0]
    /\ removed = [b \in BulletEntities |-> 0]
    /\ contacted = {}
    /\ proxlog = [b \in Dynamic |-> <<>>]
    /\ handled = {}

Idle == UNCHANGED <<spawned, alive, attract, is_grounded, pos, rot, cursor, launch,
                    forces, impulses, moved, proximity_events, contact_events,
                    inside, touching, issued, removed, contacted, proxlog,
                    handled>>

TickGravitate == pc = "gravitate" /\ gravitate /\ pc' = "graviturn"
\* TickGraviturnMut is the variant of the schedule in which the physics
\* step and physics_events come right after graviturn
TickGraviturnMut == pc = "graviturn" /\ graviturn /\ pc' = "physics"
TickGraviturn == pc = "graviturn" /\ graviturn /\ pc' = "move_player"
TickMovePlayer == pc = "move_player" /\ move_player /\ pc' = "aim"
TickAim == pc = "aim" /\ aim /\ pc' = "shoot"
TickAimNoEvent == pc = "aim" /\ Idle /\ pc' = "shoot"
TickShoot == pc = "shoot" /\ shoot /\ pc' = "physics"
TickShootNotPressed == pc = "shoot" /\ Idle /\ pc' = "physics"
TickPhysics == pc = "physics" /\ PhysicsStep /\ pc' = "physics_events"
TickPhysicsEvents == pc = "physics_events" /\ physics_events /\ pc' = "gravitate"

Next ==
    \/ TickGravitate
    \/ TickGraviturn
    \/ TickMovePlayer
    \/ TickAim
    \/ TickAimNoEvent
    \/ TickShoot
    \/ TickShootNotPressed
    \/ TickPhysics
    \/ TickPhysicsEvents

Spec == Init /\ [][Next]_vars

\* ------------------------------------------- the event handler on its own
\* A second specification for what physics_events does with any proximity
\* events at all: instead of the physics step, any event between two
\* colliders that exist, with any status, is pushed while the queue holds
\* fewer than MaxQueue events; bullets are spawned by shoot and the queue
\* is drained by physics_events.
MaxQueue == 1
Statuses == {"Intersecting", "WithinMargin", "Disjoint"}
Existing(n) ==
    Planets \cup Atmospheres \cup {PlayerE} \cup {b \in BulletEntities : b[2] <= n}
AnyProximity(n) ==
    {[collider1 |-> pr[1], collider2 |-> pr[2], new_status |-> status] :
        pr \in {x \in Existing(n) \X Existing(n) : x[1] # x[2]}, status \in Statuses}

QueueProximity ==
    /\ Len(proximity_events) < MaxQueue
    /\ \E ev \in AnyProximity(spawned) :
          proximity_events' = Append(proximity_events, ev)
    /\ UNCHANGED <<pc, spawned, alive, attract, is_grounded, pos, rot, cursor,
                   launch, forces, impulses, moved, contact_events, inside,
                   touching, issued, removed, contacted, proxlog, handled>>
EventShoot == shoot /\ pc' = pc
EventDrain == physics_events /\ pc' = pc

EventNext ==
    \/ QueueProximity
    \/ EventShoot
    \/ EventDrain

EventSpec == Init /\ [][EventNext]_vars

\* ================================================================= claims
\* ---------------------------------------------------------------------- C1
\* C1: in a run of physics_events, a body whose processed proximity events
\* have gone enter(A), enter(B), exit(A) for distinct atmospheres A and B
\* ends attracted to B; and when the last event about a body is the exit of
\* atmosphere X, the reference it had before that event (the atmosphere of
\* the enter just before it, or the reference at the start of the run) is
\* cleared if it is X and kept otherwise.
ReferenceBeforeLast(b, evs) ==
    IF Len(evs) = 1 THEN attract[b] ELSE evs[Len(evs) - 1][1]
C1_LastEnterWins ==
    [][pc = "physics_events" =>
         \A b \in {PlayerE} \cup alive' :
             LET evs == EventsAbout(b, proximity_events)
                 n == Len(evs)
             IN /\ Len(proxlog'[b]) = 3 => attract'[b] = proxlog'[b][2]
                /\ (/\ n > 0
                    /\ evs[n][2] = "Disjoint"
                    /\ (n = 1 \/ evs[n - 1][2] = "Intersecting"))
                   => attract'[b] =
                        IF ReferenceBeforeLast(b, evs) = evs[n][1]
                        THEN NoEntity ELSE ReferenceBeforeLast(b, evs)]_vars
\* a body has been through enter(A), enter(B), exit(A) and is attracted to B
C1_Witness ==
    \E b \in {PlayerE} \cup alive :
        /\ Len(proxlog[b]) = 3
        /\ proxlog[b][1] # proxlog[b][2]
        /\ attract[b] = proxlog[b][2]

\* ---------------------------------------------------------------------- C2
\* C2: once physics_events has processed the queued contact events, the
\* player's is_grounded flag is true exactly when the player is in contact
\* with at least one planet.
PlayerOnPlanet == \E p \in Planets : <<p, PlayerE>> \in touching
C2_GroundedIffContact ==
    pc = "gravitate" => (is_grounded <=> PlayerOnPlanet)

\* ---------------------------------------------------------------------- C3
\* C3 (as stated): for every bullet at most one despawn is issued, and
\* exactly one once a contact event naming it has been processed.
C3_OneDespawnIssued ==
    \A b \in BulletEntities :
        /\ issued[b] <= 1
        /\ b \in contacted => issued[b] = 1
\* C3 (amended): a run of physics_events issues one despawn per contact
\* event that names a bullet still in the world, and these remove the
\* bullet from the world once; a bullet is never removed twice, and contact
\* events naming a bullet that is already destroyed issue no despawn and
\* leave it destroyed.
Naming(b, q) ==
    Cardinality({i \in DOMAIN q : q[i].handle1 = b \/ q[i].handle2 = b})
C3_DestroyedOnce ==
    [][pc = "physics_events" =>
         \A b \in BulletEntities :
             LET k == Naming(b, contact_events)
             IN /\ removed'[b] <= 1
                /\ IF b \in alive
                   THEN /\ issued'[b] = issued[b] + k
                        /\ k > 0 => b \notin alive' /\ removed'[b] = removed[b] + 1
                        /\ k = 0 => b \in alive' /\ removed'[b] = removed[b]
                   ELSE /\ issued'[b] = issued[b]
                        /\ removed'[b] = removed[b]
                        /\ b \notin alive'
                        /\ attract'[b] = attract[b]]_vars
\* a bullet named by two contact events of one run was removed once, and
\* the events that ended its contacts have been processed since
C3_Witness ==
    \E b \in contacted :
        /\ pc = "gravitate"
        /\ issued[b] = 2
        /\ removed[b] = 1
        /\ b \notin alive
        /\ \A pr \in touching : pr[1] # b /\ pr[2] # b

\* ---------------------------------------------------------------------- C4
\* C4: a run of physics_events leaves is_grounded as the last contact event
\* between a planet and the player says (true for Started, false for
\* Stopped), and unchanged when no processed event has both a planet and
\* the player, whatever other contact events (player against bullet, planet
\* against bullet) it processes.
PlanetPlayerEvents(q) ==
    SelectSeq(q, LAMBDA ev :
        \/ ev.handle1 \in Planets /\ ev.handle2 = PlayerE
        \/ ev.handle2 \in Planets /\ ev.handle1 = PlayerE)
C4_GroundedOnlyByPlanet ==
    [][pc = "physics_events" =>
         LET pp == PlanetPlayerEvents(contact_events)
         IN is_grounded' = IF pp = <<>> THEN is_grounded
                           ELSE pp[Len(pp)].kind = "Started"]_vars
\* the flag is still set after the start and the end of a contact between
\* the player and a bullet have both been processed
C4_Witness ==
    /\ pc = "gravitate"
    /\ is_grounded
    /\ PlayerOnPlanet
    /\ \E b \in contacted :
          /\ b \notin alive
          /\ <<PlayerE, b>> \notin touching
          /\ issued[b] = 2
          /\ pos[PlayerE] = <<0, 223>>
\* ---------------------------------------------------------------------- C5
\* C5: after move_player has walked the player, the player is at distance
\* PLANET_RADIUS + 23 from the center of the planet it is attracted to,
\* whichever planet that is, and its rotation is the one it had.
C5_WalkOnOwnPlanet ==
    moved.kind = "walk" =>
        /\ MagnitudeSquared(VSub(pos[PlayerE], moved.center[1]))
              = Sq(PLANET_RADIUS + PLAYER_HALF_HEIGHT)
        /\ rot = moved.rotation

\* ---------------------------------------------------------------------- C6
\* C6: after a walking tick of length dt the player stands on the circle of
\* radius PLANET_RADIUS + 23 around its planet, turned around the planet's
\* center from where it stood by the angle 1.2 * dt, in the sense of the
\* tangential direction that makes an angle under 90 degrees with the held
\* direction.
KeySense(direction, diff) ==
    {f \in {1, -1} : Dot(direction, VScale(Tangent(diff), f)) > 0}
C6_WalkAdvance ==
    moved.kind = "walk" =>
        LET center == moved.center[1]
            v == VSub(moved.from, center)
            sense == KeySense(Direction(moved.pressed), VNeg(v))
        IN (v # Zero2 /\ sense # {}) =>
              \A f \in sense :
                  LET quarters == WalkAngle(moved.dt, f) \div QUARTER
                      arm == [k |-> PLANET_RADIUS + PLAYER_HALF_HEIGHT,
                              v |-> RotQuarters(v, quarters), n |-> v]
                  IN pos[PlayerE] = VAdd(center, Eval(arm))

\* ---------------------------------------------------------------------- C7
\* C7: when gravitate has run, a body with no atmosphere assigned, or whose
\* squared distance to the assigned planet's center exceeds
\* ATMOSPHERE_RADIUS squared, has received no force in this tick, and a
\* body at distance ATMOSPHERE_RADIUS or less from it has received one.
OutOfPull(b) ==
    LET planet_center == get_planet_center(attract[b])
    IN \/ planet_center = <<>>
       \/ MagnitudeSquared(VSub(planet_center[1], pos[b])) > Sq(ATMOSPHERE_RADIUS)
C7_ForceOnlyInRange ==
    pc = "graviturn" =>
        \A b \in AttractableBodies :
            IF OutOfPull(b) THEN forces[b] = <<>> ELSE Len(forces[b]) = 1
\* one body exactly ATMOSPHERE_RADIUS from its planet has a force, another
\* attracted one farther away has none
C7_Witness ==
    /\ pc = "graviturn"
    /\ \E b \in AttractableBodies :
          /\ attract[b] \in Atmospheres
          /\ MagnitudeSquared(VSub(get_planet_center(attract[b])[1], pos[b]))
                = Sq(ATMOSPHERE_RADIUS)
          /\ Len(forces[b]) = 1
    /\ \E b \in AttractableBodies :
          /\ attract[b] \in Atmospheres
          /\ OutOfPull(b)
          /\ forces[b] = <<>>

\* ---------------------------------------------------------------------- C8
\* C8: when gravitate has run, every body with an assigned planet and
\* within ATMOSPHERE_RADIUS of its center, the center included, has
\* received one force that points from the body to the center and has
\* magnitude 200000.
TowardWith(f, diff, magnitude) ==
    /\ ~IsNaN(f)
    /\ Cross(f.v, diff) = 0
    /\ Dot(f.v, diff) > 0
    /\ f.k = magnitude
    /\ MagnitudeSquared(f.v) = MagnitudeSquared(f.n)
C8_ForceTowardCenter ==
    pc = "graviturn" =>
        \A b \in AttractableBodies :
            ~OutOfPull(b) =>
                /\ Len(forces[b]) = 1
                /\ TowardWith(forces[b][1],
                              VSub(get_planet_center(attract[b])[1], pos[b]),
                              GRAVITY)

\* ---------------------------------------------------------------------- C9
\* C9: graviturn leaves the translation of every body as it was, whether
\* the player is attracted or not.
C9_TranslationKept == [][pc = "graviturn" => pos' = pos]_vars
\* graviturn has turned an attracted player that stands to the side of its
\* planet
C9_Witness ==
    /\ pc = "move_player"
    /\ attract[PlayerE] \in Atmospheres
    /\ pos[PlayerE] = <<180, 240>>
    /\ rot # IdentityRotation

\* --------------------------------------------------------------------- C10
\* C10: after move_player has handled an attracted, airborne player with a
\* direction held, the player has received one impulse whose radial part
\* points away from the planet's center and whose tangential part has the
\* sense of direction_factor * clockwise, and its position is not set.
C10_AirImpulseAway ==
    moved.kind = "air" =>
        LET diff == VSub(moved.center[1], moved.from)
        IN /\ Len(impulses) = 1
           /\ impulses[1].k > 0
           /\ Dot(impulses[1].v, diff) < 0
           /\ Dot(impulses[1].v, VScale(Tangent(diff), moved.factor)) > 0
           /\ pos[PlayerE] = moved.from

\* --------------------------------------------------------------------- C11
\* C11: after move_player has handled a grounded, attracted player with
\* jump pressed and no direction (no key held, or keys whose vectors sum to
\* zero), the player has received one impulse, and it is -30000 times the
\* unit vector from the player to the planet's center: radial, away from
\* the planet, without a tangential part (at the center itself that unit
\* vector, and so the impulse, is 0/0).
C11_JumpRadial ==
    (moved.kind = "jump" /\ ~HasDirection(Direction(moved.pressed))) =>
        LET diff == VSub(moved.center[1], moved.from)
        IN /\ Len(impulses) = 1
           /\ impulses[1].k = -JUMP_IMPULSE
           /\ IF diff = Zero2 THEN IsNaN(impulses[1])
              ELSE TowardWith(impulses[1], diff, -JUMP_IMPULSE)
\* a player on top of the planet at the origin has jumped with A and D both
\* held, and the impulse is 30000 straight up
C11_Witness ==
    /\ moved.kind = "jump"
    /\ moved.pressed = {"A", "D"}
    /\ moved.from = <<0, 223>>
    /\ Len(impulses) = 1
    /\ Eval(impulses[1]) = <<0, JUMP_IMPULSE>>

\* --------------------------------------------------------------------- C12
\* C12: after move_player has handled a grounded, attracted player with
\* jump pressed and a direction held, the player has received one impulse
\* of magnitude 30000 that points away from the planet and whose
\* tangential part has the sense of the tangent that makes an angle under
\* 90 degrees with the held direction.
Sign(i) == IF i < 0 THEN -1 ELSE IF i > 0 THEN 1 ELSE 0
C12_JumpBiasedByInput ==
    (moved.kind = "jump" /\ HasDirection(Direction(moved.pressed))) =>
        LET diff == VSub(moved.center[1], moved.from)
            sense == KeySense(Direction(moved.pressed), diff)
        IN (diff # Zero2 /\ sense # {}) =>
              /\ Len(impulses) = 1
              /\ ~IsNaN(impulses[1])
              /\ Abs(impulses[1].k) = JUMP_IMPULSE
              /\ MagnitudeSquared(impulses[1].v) = MagnitudeSquared(impulses[1].n)
              /\ Sign(impulses[1].k) * Dot(impulses[1].v, diff) < 0
              /\ \A f \in sense :
                    Sign(impulses[1].k)
                        * Dot(impulses[1].v, VScale(Tangent(diff), f)) > 0

\* --------------------------------------------------------------------- C13
\* C13: after move_player has handled an attracted player, at most one of
\* an impulse and a change of the player's position or rotation has
\* happened: a grounded player with jump pressed has the jump impulse only
\* and stands where it stood; a grounded player with no direction and no
\* jump, and an airborne player with no direction (jump pressed or not),
\* have no impulse and stand where they stood.
Snapped == pos[PlayerE] # moved.from \/ rot # moved.rotation
C13_AtMostOneEffect ==
    moved.kind \notin {"none", "skip"} =>
        LET has_direction == HasDirection(Direction(moved.pressed))
        IN /\ Len(impulses) + (IF Snapped THEN 1 ELSE 0) <= 1
           /\ (moved.grounded /\ moved.space) =>
                 /\ Len(impulses) = 1
                 /\ impulses[1].k = -JUMP_IMPULSE
                 /\ ~Snapped
           /\ (moved.grounded /\ ~moved.space /\ ~has_direction) =>
                 impulses = <<>> /\ ~Snapped
           /\ (~moved.grounded /\ ~has_direction) =>
                 impulses = <<>> /\ ~Snapped
\* a grounded player has jumped with a direction held and was not walked
C13_Witness ==
    /\ moved.kind = "jump"
    /\ moved.grounded
    /\ HasDirection(Direction(moved.pressed))
    /\ Len(impulses) = 1
    /\ pos[PlayerE] = moved.from
    /\ moved.from = <<0, 223>>

\* --------------------------------------------------------------------- C14
\* C14: a run of shoot in a tick in which the button is just pressed spawns
\* exactly one bullet, built at the player's position plus 30 * d with
\* velocity 700 * d, d the unit vector from the player to the aim point
\* (aim straight above the player: velocity (0, 700), 30 above the
\* player); a run in a tick without a just-pressed button spawns none.
Launched(entity) ==
    LET l == launch'[entity][1]
        d == VSub(cursor, pos[PlayerE])
    IN /\ l.from = pos[PlayerE]
       /\ d # Zero2 =>
             /\ TowardWith(l.offset, d, BULLET_OFFSET)
             /\ TowardWith(l.vel, d, BULLET_SPEED)
       /\ IsExact(l.offset) => pos'[entity] = VAdd(pos[PlayerE], Eval(l.offset))
       /\ (d[1] = 0 /\ d[2] > 0) =>
             /\ Eval(l.vel) = <<0, BULLET_SPEED>>
             /\ pos'[entity] = VAdd(pos[PlayerE], <<0, BULLET_OFFSET>>)
LastEnter(b, q) ==
    LET evs == EventsAbout(b, q)
    IN IF evs # <<>> /\ evs[Len(evs)][2] = "Intersecting"
       THEN <<evs[Len(evs)][1]>> ELSE <<>>
C15_QueuesDrained ==
    [][pc = "physics_events" =>
         /\ proximity_events' = <<>>
         /\ contact_events' = <<>>
         /\ \A b \in BulletEntities :
               issued'[b] = issued[b]
                   + (IF b \in alive THEN Naming(b, contact_events) ELSE 0)
         /\ LET pp == PlanetPlayerEvents(contact_events)
            IN pp # <<>> => (is_grounded' <=> pp[Len(pp)].kind = "Started")
         /\ \A b \in {PlayerE} \cup alive' :
               LastEnter(b, proximity_events) # <<>> =>
                   attract'[b] = LastEnter(b, proximity_events)[1]]_vars
\* a run has just applied two contact events that name the same bullet and
\* both queues are empty
C15_Witness ==
    /\ pc = "gravitate"
    /\ proximity_events = <<>>
    /\ contact_events = <<>>
    /\ \E b \in contacted :
          /\ issued[b] = 2
          /\ <<PlayerE, b>> \in touching
          /\ \E p \in Planets : <<p, b>> \in touching

\* --------------------------------------------------------------------- C16
\* C16: gravitate, graviturn, move_player, aim, shoot and the physics step
\* leave is_grounded and the reference of every existing Attractable as
\* they are; a run of physics_events without contact events leaves
\* is_grounded as it is, and one without proximity events leaves every
\* reference as it is.
ReferencesKept(bodies) == \A b \in bodies : attract'[b] = attract[b]
C16_OnlyEventsWrite ==
    [][/\ pc # "physics_events" =>
             /\ is_grounded' = is_grounded
             /\ ReferencesKept({PlayerE} \cup alive)
       /\ (pc = "physics_events" /\ contact_events = <<>>) =>
             is_grounded' = is_grounded
       /\ (pc = "physics_events" /\ proximity_events = <<>>) =>
             ReferencesKept({PlayerE} \cup alive')]_vars
\* gravitate, graviturn, a jump, aim and shoot have run in this tick and
\* the player is still grounded and attracted
C16_Witness ==
    /\ pc = "physics"
    /\ moved.kind = "jump"
    /\ is_grounded
    /\ attract[PlayerE] \in Atmospheres
    /\ forces[PlayerE] # <<>>
    /\ \E b \in alive : Len(launch[b]) = 1

\* --------------------------------------------------------------------- C17
\* C17: a body whose reference is none or does not resolve to an
\* atmosphere gets no force from gravitate, and a player in that case is
\* left with its position, rotation and impulses by graviturn and by
\* move_player, whatever keys are held; the attracted bodies in range
\* still get their force in the same run of gravitate.
Unresolved(b) == attract[b] \notin Atmospheres
C17_SkipUnattracted ==
    [][/\ pc = "gravitate" =>
             /\ \A b \in AttractableBodies :
                   Unresolved(b) => forces'[b] = forces[b]
             /\ \A b \in AttractableBodies :
                   ~OutOfPull(b) => Len(forces'[b]) = Len(forces[b]) + 1
       /\ (pc \in {"graviturn", "move_player"} /\ Unresolved(PlayerE)) =>
             /\ pos' = pos
             /\ rot' = rot
             /\ impulses' = impulses
             /\ forces' = forces]_vars
\* the three systems have skipped an unattracted player in a tick in which
\* an attracted bullet got its force
C17_Witness ==
    /\ pc = "aim"
    /\ moved.kind = "skip"
    /\ attract[PlayerE] = NoEntity
    /\ forces[PlayerE] = <<>>
    /\ impulses = <<>>
    /\ pos[PlayerE] = moved.from
    /\ rot = moved.rotation
    /\ \E b \in alive : attract[b] \in Atmospheres /\ Len(forces[b]) = 1

\* --------------------------------------------------------------------- C18
\* C18: the stages of a tick run one after another in the order gravitate,
\* graviturn, move_player, aim, shoot, (physics step,) physics_events, and
\* then the next tick starts; so until the physics_events of a tick runs,
\* is_grounded and the player's reference are still what move_player read
\* in that tick, which is what the previous physics_events left.
StageAfter(stage) ==
    CASE stage = "gravitate" -> "graviturn"
      [] stage = "graviturn" -> "move_player"
      [] stage = "move_player" -> "aim"
      [] stage = "aim" -> "shoot"
      [] stage = "shoot" -> "physics"
      [] stage = "physics" -> "physics_events"
      [] stage = "physics_events" -> "gravitate"
C18_StageOrder ==
    [][/\ pc' = StageAfter(pc)
       /\ pc' \in {"aim", "shoot", "physics"} =>
             /\ moved'.kind # "none"
             /\ moved'.grounded = is_grounded'
             /\ moved'.center = get_planet_center(attract'[PlayerE])
       /\ pc' \in {"gravitate", "graviturn", "move_player"} =>
             /\ proximity_events' = <<>>
             /\ contact_events' = <<>>]_vars
\* move_player of a later tick has walked the player on the flag that the
\* physics_events of the tick before set
C18_Witness ==
    /\ pc = "physics"
    /\ moved.kind = "walk"
    /\ moved.grounded
    /\ is_grounded
    /\ PlayerOnPlanet

\* --------------------------------------------------------------------- C19
\* C19: no despawn is ever issued for the player, a planet or an
\* atmosphere, whatever contact and proximity events are processed: only
\* bullets leave the world.
C19_OnlyBulletsDespawned ==
    /\ \A e \in Colliders \ BulletEntities : issued[e] = 0
    /\ alive \subseteq BulletEntities
    /\ \A b \in BulletEntities : removed[b] > 0 => issued[b] > 0
\* a contact between the player, a planet and a bullet has been processed:
\* the bullet is gone, and nothing was issued for the player or the planet
C19_Witness ==
    /\ pc = "gravitate"
    /\ \E b \in contacted :
          /\ b \notin alive
          /\ issued[b] > 0
          /\ <<PlayerE, b>> \in touching
    /\ issued[PlayerE] = 0
    /\ \A p \in Planets : issued[p] = 0

\* --------------------------------------------------------------------- C20
\* C20: the reference of every Attractable is none or an atmosphere, in
\* the first state and after every step: a spawned bullet starts with none,
\* a body whose last proximity event with an atmosphere is an enter is
\* attracted to that atmosphere, and a queue that holds only WithinMargin
\* events and events without an atmosphere participant changes no
\* reference.
ValidReference(r) == r = NoEntity \/ r \in Atmospheres
Inert(q, n) ==
    \A i \in DOMAIN q : KindOf(q[i], n) \in {"NoAtmosphere", "WithinMargin"}
C20_ReferenceIsAtmosphere ==
    /\ \A b \in Dynamic : attract[b] = NoEntity
    /\ [][/\ \A b \in Dynamic : ValidReference(attract'[b])
          /\ \A b \in alive' \ alive : attract'[b] = NoEntity
          /\ Inert(proximity_events, spawned) => attract' = attract
          /\ proximity_events' = <<>> =>
                \A b \in {PlayerE} \cup alive' :
                    LastEnter(b, proximity_events) # <<>> =>
                        /\ LastEnter(b, proximity_events)[1] \in Atmospheres
                        /\ attract'[b] = LastEnter(b, proximity_events)[1]]_vars
\* events of every kind have been processed, those without an atmosphere
\* and WithinMargin ones included; the player is attracted to an
\* atmosphere and a spawned bullet to nothing
C20_Witness ==
    /\ proximity_events = <<>>
    /\ {"NoAtmosphere", "WithinMargin", "Intersecting", "Disjoint"} \subseteq handled
    /\ attract[PlayerE] \in Atmospheres
    /\ \E b \in alive : attract[b] = NoEntity
=============================================================================
